---- MODULE Spec2Model ----
(***************************************************************************)
(* Model of rvff's rap configuration reader (src/rap/config.rs and         *)
(* src/rap/parser.rs): the entry points Cfg::read, Cfg::read_config and    *)
(* Cfg::parse_config, the text pipeline parse = lexer + entry_parser, and  *)
(* the path lookup Cfg::get_entry.                                         *)
(*                                                                         *)
(* Text is a sequence of Unicode code points (naturals), a byte stream a   *)
(* sequence of naturals below 256.  Positions are 1-based indices of the   *)
(* next unread element; a sub-parser that fails answers position 0.        *)
(***************************************************************************)
EXTENDS Integers, Sequences, FiniteSets, TLC

(***************************************************************************)
(* Characters the lexer names (parser.rs, lexer()).                        *)
(***************************************************************************)
EOF == -1
CH_NL == 10
CH_QUOTE == 34
CH_STAR == 42
CH_PLUS == 43
CH_COMMA == 44
CH_MINUS == 45
CH_DOT == 46
CH_SLASH == 47
CH_ZERO == 48
CH_COLON == 58
CH_SEMI == 59
CH_EQ == 61
CH_UPPER_E == 69
CH_LBRACKET == 91
CH_BACKSLASH == 92
CH_RBRACKET == 93
CH_UNDERSCORE == 95
CH_LOWER_E == 101
CH_LOWER_N == 110
CH_LBRACE == 123
CH_RBRACE == 125

\* "class" and "delete" as code points.
KW_CLASS == <<99, 108, 97, 115, 115>>
KW_DELETE == <<100, 101, 108, 101, 116, 101>>

\* The character at position i of s, EOF past the end.
At(s, i) == IF i >= 1 /\ i <= Len(s) THEN s[i] ELSE EOF

\* char::is_digit(10)
IsDigit(c) == c >= 48 /\ c <= 57

\* char::is_whitespace (Unicode White_Space)
IsWhitespace(c) ==
    \/ c >= 9 /\ c <= 13
    \/ c \in {32, 133, 160, 5760, 8232, 8233, 8239, 8287, 12288}
    \/ c >= 8192 /\ c <= 8202

\* text::ident: first character
IsIdentStart(c) == (c >= 65 /\ c <= 90) \/ (c >= 97 /\ c <= 122) \/ c = CH_UNDERSCORE

\* text::ident: following characters
IsIdentCont(c) == IsIdentStart(c) \/ IsDigit(c)

\* one_of("[]{};,:=")
IsCtrl(c) ==
    c \in {CH_LBRACKET, CH_RBRACKET, CH_LBRACE, CH_RBRACE, CH_SEMI, CH_COMMA, CH_COLON, CH_EQ}

\* The text of s from position i up to, not including, position j.
Slice(s, i, j) == SubSeq(s, i, j - 1)

RECURSIVE SkipWhitespace(_, _)
\* .padded(): the position after the run of whitespace starting at i.
SkipWhitespace(s, i) ==
    IF IsWhitespace(At(s, i)) THEN SkipWhitespace(s, i + 1) ELSE i

RECURSIVE SkipDigits(_, _)
\* The position after the (possibly empty) run of digits starting at i.
SkipDigits(s, i) ==
    IF IsDigit(At(s, i)) THEN SkipDigits(s, i + 1) ELSE i

\* text::digits(10): at least one digit; 0 on failure.
TextDigits(s, i) == IF IsDigit(At(s, i)) THEN SkipDigits(s, i) ELSE 0

\* text::int(10): a non-zero digit followed by digits, or a single '0'.
TextInt(s, i) ==
    IF IsDigit(At(s, i)) /\ At(s, i) # CH_ZERO THEN SkipDigits(s, i)
    ELSE IF At(s, i) = CH_ZERO THEN i + 1
    ELSE 0

\* frac = just('.').chain(text::digits(10))
Frac(s, i) == IF At(s, i) = CH_DOT THEN TextDigits(s, i + 1) ELSE 0

\* exp = (e|E) (+|-)? digits
Exp(s, i) ==
    IF At(s, i) \in {CH_LOWER_E, CH_UPPER_E}
    THEN TextDigits(s, IF At(s, i + 1) \in {CH_PLUS, CH_MINUS} THEN i + 2 ELSE i + 1)
    ELSE 0

\* p.or_not(): the position p reached, or i when p failed.
OrNot(p, i) == IF p = 0 THEN i ELSE p

(***************************************************************************)
(* str::parse::<f32>: the grammar Rust's float parser accepts: an optional *)
(* sign, digits with an optional '.' and more digits (at least one digit   *)
(* in all), and an optional exponent.  The words "inf", "infinity" and     *)
(* "nan" are accepted too, but the num parser never produces them.         *)
(***************************************************************************)
ParsesAsF32(str) ==
    LET Exponent(nd, c) == nd > 0 /\ OrNot(Exp(str, c), c) = Len(str) + 1
        Fraction(a, b, c) == Exponent((b - a) + (c - b - 1), c)
        Point(a, b) == IF At(str, b) = CH_DOT THEN Fraction(a, b, SkipDigits(str, b + 1))
                       ELSE Exponent(b - a, b)
        Digits(a) == Point(a, SkipDigits(str, a))
    IN  Digits(IF At(str, 1) \in {CH_PLUS, CH_MINUS} THEN 2 ELSE 1)

\* Option<T>: None is <<>>, Some(v) is <<v>>.
None == <<>>
Some(v) == <<v>>

\* Tokens: [kind, text]; kind is one of Num, Str, Ctrl, Ident, Class, Delete.
Tok(kind, text) == [kind |-> kind, text |-> text]

Fail == [end |-> 0, tok |-> Tok("None", <<>>)]

\* a.or(b): what a gave unless it failed, then what b gives
Or(a, b) == IF a.end # 0 THEN a ELSE b

\* num (parser.rs 47-59)
LexNum(s, i) ==
    LET Collect(d, str) ==
            [end |-> d, tok |-> IF ParsesAsF32(str) THEN Tok("Num", str) ELSE Tok("Str", str)]
        AfterExp(d) == Collect(d, Slice(s, i, d))
        AfterFrac(c) == AfterExp(OrNot(Exp(s, c), c))
        AfterInt(b) == IF b = 0 THEN Fail ELSE AfterFrac(OrNot(Frac(s, b), b))
    IN  AfterInt(TextInt(s, IF At(s, i) = CH_MINUS THEN i + 1 ELSE i))

RECURSIVE StrBody(_, _, _)
\* (filter(c != '"') | just("\"\"").to('"')).repeated(): [end, text]
StrBody(s, i, acc) ==
    IF At(s, i) # EOF /\ At(s, i) # CH_QUOTE THEN StrBody(s, i + 1, Append(acc, At(s, i)))
    ELSE IF At(s, i) = CH_QUOTE /\ At(s, i + 1) = CH_QUOTE
         THEN StrBody(s, i + 2, Append(acc, CH_QUOTE))
    ELSE [end |-> i, text |-> acc]

\* str_ (parser.rs 65-69): [end, text], end = 0 on failure
LexStr1(s, i) ==
    LET Close(b) == IF At(s, b.end) = CH_QUOTE THEN [end |-> b.end + 1, text |-> b.text]
                    ELSE [end |-> 0, text |-> <<>>]
    IN  IF At(s, i) # CH_QUOTE THEN [end |-> 0, text |-> <<>>]
        ELSE Close(StrBody(s, i + 1, <<>>))

\* string_concat = just("\\n").padded() (parser.rs 62)
StringConcat(s, i) ==
    LET Sep(a) == IF At(s, a) = CH_BACKSLASH /\ At(s, a + 1) = CH_LOWER_N
                  THEN SkipWhitespace(s, a + 2) ELSE 0
    IN  Sep(SkipWhitespace(s, i))

RECURSIVE StrsMore(_, _, _)
\* the (separator item)* tail of str_.separated_by(string_concat), joined by "\n"
StrsMore(s, i, acc) ==
    LET Item(item) == IF item.end = 0 THEN [end |-> i, text |-> acc]
                      ELSE StrsMore(s, item.end, acc \o <<CH_NL>> \o item.text)
        AfterSep(sep) == IF sep = 0 THEN [end |-> i, text |-> acc] ELSE Item(LexStr1(s, sep))
    IN  AfterSep(StringConcat(s, i))

\* strs (parser.rs 72-90)
LexStrs(s, i) ==
    LET Concat(all) == [end |-> all.end, tok |-> Tok("Str", all.text)]
        First(first) == IF first.end = 0 THEN Fail
                        ELSE Concat(StrsMore(s, first.end, first.text))
    IN  First(LexStr1(s, i))

\* ctrl (parser.rs 93)
LexCtrl(s, i) ==
    IF IsCtrl(At(s, i)) THEN [end |-> i + 1, tok |-> Tok("Ctrl", <<At(s, i)>>)] ELSE Fail

RECURSIVE SkipIdent(_, _)
SkipIdent(s, i) == IF IsIdentCont(At(s, i)) THEN SkipIdent(s, i + 1) ELSE i

\* ident (parser.rs 96-100)
LexIdent(s, i) ==
    LET Keyword(t) == IF t = KW_CLASS THEN Tok("Class", t)
                      ELSE IF t = KW_DELETE THEN Tok("Delete", t)
                      ELSE Tok("Ident", t)
        Ident(e) == [end |-> e, tok |-> Keyword(Slice(s, i, e))]
    IN  IF ~IsIdentStart(At(s, i)) THEN Fail ELSE Ident(SkipIdent(s, i + 1))

\* num.or(strs).or(ctrl).or(ident) (parser.rs 102-105)
LexToken(s, i) == Or(LexNum(s, i), Or(LexStrs(s, i), Or(LexCtrl(s, i), LexIdent(s, i))))

RECURSIVE SkipThenRetry(_, _)
\* skip_then_retry_until([]): skip one character and retry the token parser,
\* until it succeeds or the input ends (then recovery fails).
SkipThenRetry(s, i) ==
    IF At(s, i) = EOF THEN Fail
    ELSE Or(LexToken(s, i + 1), SkipThenRetry(s, i + 1))

\* token = (...).recover_with(skip_then_retry_until([])) (parser.rs 102-106):
\* [end, tok, nerr]; a successful recovery records the token parser's error.
LexTokenRecover(s, i) ==
    LET Recovered(k) == [end |-> k.end, tok |-> k.tok, nerr |-> 1]
        Tried(r) == IF r.end # 0 THEN [end |-> r.end, tok |-> r.tok, nerr |-> 0]
                    ELSE Recovered(SkipThenRetry(s, i))
    IN  Tried(LexToken(s, i))

RECURSIVE FindNL(_, _)
\* take_until(just('\n')): the position after the first '\n' at or after i, 0 if none
FindNL(s, i) ==
    IF At(s, i) = EOF THEN 0
    ELSE IF At(s, i) = CH_NL THEN i + 1
    ELSE FindNL(s, i + 1)

RECURSIVE FindStarSlash(_, _)
\* take_until(just("*/")): the position after the first "*/" at or after i, 0 if none
FindStarSlash(s, i) ==
    IF At(s, i) = EOF THEN 0
    ELSE IF At(s, i) = CH_STAR /\ At(s, i + 1) = CH_SLASH THEN i + 2
    ELSE FindStarSlash(s, i + 1)

\* p.padded() for a p that starts at a and ends at b (0: failed)
PaddedEnd(s, b) == IF b = 0 THEN 0 ELSE SkipWhitespace(s, b)

\* comment = just("//").then(take_until(just('\n'))).padded() (parser.rs 108)
LexComment(s, i) ==
    LET Body(a) == IF At(s, a) = CH_SLASH /\ At(s, a + 1) = CH_SLASH
                   THEN FindNL(s, a + 2) ELSE 0
    IN  PaddedEnd(s, Body(SkipWhitespace(s, i)))

\* ml_comment = just("/*").then(take_until(just("*/"))).padded() (parser.rs 109)
LexMlComment(s, i) ==
    LET Body(a) == IF At(s, a) = CH_SLASH /\ At(s, a + 1) = CH_STAR
                   THEN FindStarSlash(s, a + 2) ELSE 0
    IN  PaddedEnd(s, Body(SkipWhitespace(s, i)))

RECURSIVE Comments(_, _)
\* comment.repeated()
Comments(s, i) ==
    LET More(e) == IF e = 0 THEN i ELSE Comments(s, e) IN More(LexComment(s, i))

RECURSIVE MlComments(_, _)
\* ml_comment.repeated()
MlComments(s, i) ==
    LET More(e) == IF e = 0 THEN i ELSE MlComments(s, e) IN More(LexMlComment(s, i))

\* One iteration of the lexer's repeated() (parser.rs 111-115):
\*   token.map_with_span(..).padded_by(comment.repeated())
\*        .padded_by(ml_comment.repeated()).padded()
\* that is: whitespace, block comments, line comments, the token, line
\* comments, block comments, whitespace.  The span is in 0-based offsets and
\* starts where the token parser was first tried.
LexItem(s, i) ==
    LET Spanned(c, t) ==
            IF t.end = 0 THEN [end |-> 0, tok |-> t.tok, span |-> <<0, 0>>, nerr |-> 0]
            ELSE [end |-> SkipWhitespace(s, MlComments(s, Comments(s, t.end))),
                  tok |-> t.tok, span |-> <<c - 1, t.end - 1>>, nerr |-> t.nerr]
        Token(c) == Spanned(c, LexTokenRecover(s, c))
    IN  Token(Comments(s, MlComments(s, SkipWhitespace(s, i))))

\* A lexer diagnostic (Simple<char>); only its origin is kept, the rendering
\* of the report is ariadne's.
LexDiag == [stage |-> "lexer"]

RECURSIVE LexRepeated(_, _, _, _)
\* .repeated() (parser.rs 116): items until one fails
LexRepeated(s, i, toks, errs) ==
    LET Item(it) ==
            IF it.end = 0 THEN [tokens |-> Some(toks), errs |-> errs, end |-> i]
            ELSE LexRepeated(s, it.end, Append(toks, [tok |-> it.tok, span |-> it.span]),
                             IF it.nerr = 1 THEN Append(errs, LexDiag) ELSE errs)
    IN  Item(LexItem(s, i))

\* lexer().parse_recovery(src) (parser.rs 38-117, 265): repeated() accepts zero
\* items and nothing demands the end of input, so the token list is always Some.
Lexer(s) == LexRepeated(s, 1, <<>>, <<>>)



(***************************************************************************)
(* The value of a numeric token.  n.parse::<f32>() is modelled on the      *)
(* literal's decimal value: sign, significant digits (no leading or        *)
(* trailing zero) and a power of ten.  The f32 nearest to a decimal of at  *)
(* most f32::DIGITS = 6 significant digits determines that decimal, and is *)
(* an integer exactly when the decimal is, so such a float is represented  *)
(* by its decimal.  Integers are rounded to f32's 24-bit significand.      *)
(***************************************************************************)
I32_MAX == 2147483647
I32_MIN == (-2147483647) - 1
F32_SIGNIFICAND == 16777216

\* The decimal digits of f32::MAX + half an ulp (3.4028235677973366e38) and of
\* half the smallest subnormal (7.006492321624085e-46).
F32_OVERFLOW_DIGITS == <<3, 4, 0, 2, 8, 2, 3, 5, 6, 7, 7, 9, 7, 3, 3, 6, 6>>
F32_UNDERFLOW_DIGITS == <<7, 0, 0, 6, 4, 9, 2, 3, 2, 1, 6, 2, 4, 0, 8, 5>>

RECURSIVE StripLeadingZeros(_)
StripLeadingZeros(d) ==
    IF d # <<>> /\ d[1] = 0 THEN StripLeadingZeros(Tail(d)) ELSE d

RECURSIVE StripTrailingZeros(_)
StripTrailingZeros(d) ==
    IF d # <<>> /\ d[Len(d)] = 0 THEN StripTrailingZeros(SubSeq(d, 1, Len(d) - 1)) ELSE d

RECURSIVE DigitsLess(_, _)
\* 0.d1d2... < 0.e1e2... for digit sequences d and e
DigitsLess(d, e) ==
    IF e = <<>> THEN FALSE
    ELSE IF d = <<>> THEN \E k \in DOMAIN e : e[k] # 0
    ELSE IF d[1] # e[1] THEN d[1] < e[1]
    ELSE DigitsLess(Tail(d), Tail(e))

RECURSIVE NatOfDigitsSat(_, _)
\* The number written by digits d after acc, saturating at I32_MAX.
NatOfDigitsSat(d, acc) ==
    IF d = <<>> THEN acc
    ELSE IF acc > (I32_MAX - d[1]) \div 10 THEN I32_MAX
    ELSE NatOfDigitsSat(Tail(d), acc * 10 + d[1])

\* The exponent written at position c of the literal (0 when there is none),
\* capped where every f32 has long overflowed or underflowed.
ExponentAt(str, c) ==
    LET Capped(emag) == IF emag > 100000 THEN 100000 ELSE emag
        Digits(es) ==
            Capped(NatOfDigitsSat([k \in 1..(Len(str) - es + 1) |-> str[es + k - 1] - CH_ZERO], 0))
    IN  IF At(str, c) \notin {CH_LOWER_E, CH_UPPER_E} THEN 0
        ELSE IF At(str, c + 1) = CH_MINUS THEN -Digits(c + 2)
        ELSE IF At(str, c + 1) = CH_PLUS THEN Digits(c + 2)
        ELSE Digits(c + 1)

\* The literal as a decimal [neg, digits, e10]: its magnitude is the digits
\* read as an integer, times 10^e10.
DecimalOf(str) ==
    LET Build(d0, d1, e) ==
            [neg |-> At(str, 1) = CH_MINUS, digits |-> d1, e10 |-> e + (Len(d0) - Len(d1))]
        Strip(d0, e) == Build(d0, StripTrailingZeros(d0), e)
        Parts(a, b, nfr, e) ==
            Strip(StripLeadingZeros([k \in 1..(b - a) |-> str[a + k - 1] - CH_ZERO]
                                    \o [k \in 1..nfr |-> str[b + k] - CH_ZERO]),
                  e - nfr)
        Fraction(a, b, c) == Parts(a, b, IF c > b THEN c - b - 1 ELSE 0, ExponentAt(str, c))
        Point(a, b) == Fraction(a, b, IF At(str, b) = CH_DOT THEN SkipDigits(str, b + 1) ELSE b)
        Sign(a) == Point(a, SkipDigits(str, a))
    IN  Sign(IF At(str, 1) = CH_MINUS THEN 2 ELSE 1)

\* The unit in the last place of the f32 nearest to the integer v < 2^31.
F32Unit(v) ==
    CHOOSE u \in {1, 2, 4, 8, 16, 32, 64, 128} :
        /\ v \div u < F32_SIGNIFICAND
        /\ u = 1 \/ v \div (u \div 2) >= F32_SIGNIFICAND

\* The integer v < 2^31 rounded to the nearest f32 (ties to even), then
\* `as i32` (saturating).
RoundF32Sat(v) ==
    LET Rounded(u, q2) == IF q2 >= F32_SIGNIFICAND /\ u = 128 THEN I32_MAX ELSE q2 * u
        Unit(u) ==
            Rounded(u, IF 2 * (v % u) > u \/ (2 * (v % u) = u /\ (v \div u) % 2 = 1)
                       THEN (v \div u) + 1 ELSE v \div u)
    IN  Unit(F32Unit(v))

\* The CfgValue variants (the ValueExpr variants map to them one to one,
\* parser.rs 153-162).
LongValue(n) == [type |-> "Long", long |-> n]
FloatValue(neg, inf, digits, e10) ==
    [type |-> "Float", neg |-> neg, inf |-> inf, digits |-> digits, e10 |-> e10]
StringValue(t) == [type |-> "String", str |-> t]
ArrayValue(vs) == [type |-> "Array", items |-> vs]

\* What num.fract() != 0.0 answers for num = str.parse::<f32>().unwrap():
\* "zero" and "int" have fract() = 0.0; "frac" has a non-zero fraction; for
\* "inf" fract() is NaN, which differs from 0.0.  "unmodelled" marks a
\* fractional literal of more than 6 significant digits, whose nearest f32 this
\* decimal model does not determine.
F32Class(str) ==
    LET Classify(v, ord) ==
            IF v.digits = <<>> THEN "zero"
            ELSE IF ord > 39 \/ (ord = 39 /\ ~DigitsLess(v.digits, F32_OVERFLOW_DIGITS))
                 THEN "inf"
            ELSE IF ord < -45 \/ (ord = -45 /\ ~DigitsLess(F32_UNDERFLOW_DIGITS, v.digits))
                 THEN "zero"
            ELSE IF v.e10 >= 0 THEN "int"
            ELSE IF Len(v.digits) <= 6 THEN "frac"
            ELSE "unmodelled"
        Of(v) == Classify(v, Len(v.digits) + v.e10)
    IN  Of(DecimalOf(str))

\* A faulty conversion, for comparison: the exponent of the literal is dropped.
F32AsI32NoExponent(str) == NatOfDigitsSat(DecimalOf(str).digits, 0)

\* num as i32 for an integral f32
F32AsI32(str) ==
    LET Signed(v, ord, n, m) ==
            IF ~v.neg THEN m
            ELSE IF ord > 10 \/ n = I32_MAX THEN I32_MIN
            ELSE -m
        Magnitude(v, ord, n) ==
            Signed(v, ord, n, IF n = I32_MAX THEN I32_MAX ELSE RoundF32Sat(n))
        Order(v, ord) ==
            Magnitude(v, ord, IF ord > 10 THEN I32_MAX
                              ELSE NatOfDigitsSat(v.digits \o [k \in 1..v.e10 |-> 0], 0))
        Of(v) == Order(v, Len(v.digits) + v.e10)
    IN  IF F32Class(str) = "zero" THEN 0 ELSE Of(DecimalOf(str))

\* The f32 itself, for a value kept as a float.
F32Value(str) ==
    LET Of(v) == IF F32Class(str) = "inf" THEN FloatValue(v.neg, TRUE, <<>>, 0)
                 ELSE FloatValue(v.neg, FALSE, v.digits, v.e10)
    IN  Of(DecimalOf(str))

\* A faulty typing, for comparison: by the literal's form instead of by the
\* fractional part of the parsed float.
NumValueByForm(n) ==
    IF \E k \in DOMAIN n : n[k] \in {CH_DOT, CH_LOWER_E, CH_UPPER_E}
    THEN F32Value(n) ELSE LongValue(F32AsI32(n))

\* select! { Token::Num(n) => ... } (parser.rs 166-174)
NumValue(n) ==
    LET Typed(class) ==
            IF class \in {"frac", "inf"} THEN F32Value(n)
            ELSE IF class = "unmodelled" THEN [type |-> "Unmodelled"]
            ELSE LongValue(F32AsI32(n))
    IN  Typed(F32Class(n))



(***************************************************************************)
(* entry_parser (parser.rs 164-262), over the lexer's tokens.  A position  *)
(* is an index into the token list.  The parser has no recovery strategy   *)
(* (every recover_with is commented out), so it either consumes the whole  *)
(* list or fails with a single error.  The nodes are built directly as     *)
(* CfgEntry/CfgValue: From<EntryExpr> and From<ValueExpr> (parser.rs       *)
(* 127-162) map the variants one to one and drop the spans.                *)
(***************************************************************************)
NoTok == Tok("None", <<>>)
TokAt(toks, i) == IF i >= 1 /\ i <= Len(toks) THEN toks[i].tok ELSE NoTok
IsCtrlTok(toks, i, c) == TokAt(toks, i) = Tok("Ctrl", <<c>>)
IsIdentTok(toks, i) == TokAt(toks, i).kind = "Ident"

PFail == [end |-> 0, out |-> <<>>]

\* val (parser.rs 165-178): [end, out]
PVal(toks, i) ==
    LET Value(t) ==
            IF t.kind = "Num" THEN [end |-> i + 1, out |-> NumValue(t.text)]
            ELSE IF t.kind = "Str" THEN [end |-> i + 1, out |-> StringValue(t.text)]
            ELSE PFail
    IN  Value(TokAt(toks, i))

RECURSIVE PArrVals(_, _)
RECURSIVE PArrMore(_, _, _)

\* val.or(arr_val)
PArrItem(toks, i) == Or(PVal(toks, i), PArrVals(toks, i))

\* the (',' item)* tail of separated_by(just(','))
PArrMore(toks, i, acc) ==
    LET Item(item) == IF item.end = 0 THEN [end |-> i, out |-> acc]
                      ELSE PArrMore(toks, item.end, Append(acc, item.out))
    IN  Item(IF IsCtrlTok(toks, i, CH_COMMA) THEN PArrItem(toks, i + 1) ELSE PFail)

\* arr_vals (parser.rs 182-188): '{' items separated by ',' with an optional
\* trailing ',' '}'
PArrVals(toks, i) ==
    LET Close(items, close) ==
            IF IsCtrlTok(toks, close, CH_RBRACE)
            THEN [end |-> close + 1, out |-> ArrayValue(items.out)]
            ELSE PFail
        Items(items) ==
            Close(items, IF items.out # <<>> /\ IsCtrlTok(toks, items.end, CH_COMMA)
                         THEN items.end + 1 ELSE items.end)
        First(first) ==
            Items(IF first.end = 0 THEN [end |-> i + 1, out |-> <<>>]
                  ELSE PArrMore(toks, first.end, <<first.out>>))
    IN  IF IsCtrlTok(toks, i, CH_LBRACE) THEN First(PArrItem(toks, i + 1)) ELSE PFail

\* The CfgEntry variants.
PropertyEntry(name, value) == [type |-> "Property", name |-> name, value |-> value]
ClassEntry(name, parent, entries) ==
    [type |-> "Class", name |-> name, parent |-> parent, entries |-> entries]
ExternEntry(name) == [type |-> "Extern", name |-> name]
DeleteEntry(name) == [type |-> "Delete", name |-> name]

\* prop (parser.rs 190-194): identifier '=' value ';'
PProp(toks, i) ==
    LET Value(v) ==
            IF v.end # 0 /\ IsCtrlTok(toks, v.end, CH_SEMI)
            THEN [end |-> v.end + 1, out |-> PropertyEntry(TokAt(toks, i).text, v.out)]
            ELSE PFail
    IN  IF IsIdentTok(toks, i) /\ IsCtrlTok(toks, i + 1, CH_EQ)
        THEN Value(PVal(toks, i + 2)) ELSE PFail

\* prop_arr (parser.rs 197-203): identifier '[' ']' '=' array ';'
PPropArr(toks, i) ==
    LET Value(v) ==
            IF v.end # 0 /\ IsCtrlTok(toks, v.end, CH_SEMI)
            THEN [end |-> v.end + 1, out |-> PropertyEntry(TokAt(toks, i).text, v.out)]
            ELSE PFail
    IN  IF IsIdentTok(toks, i) /\ IsCtrlTok(toks, i + 1, CH_LBRACKET)
           /\ IsCtrlTok(toks, i + 2, CH_RBRACKET) /\ IsCtrlTok(toks, i + 3, CH_EQ)
        THEN Value(PArrVals(toks, i + 4)) ELSE PFail

\* extern_class (parser.rs 215-218): 'class' identifier ';'
PExternClass(toks, i) ==
    IF TokAt(toks, i).kind = "Class" /\ IsIdentTok(toks, i + 1) /\ IsCtrlTok(toks, i + 2, CH_SEMI)
    THEN [end |-> i + 3, out |-> ExternEntry(TokAt(toks, i + 1).text)]
    ELSE PFail

\* del_class (parser.rs 221-224): 'delete' identifier ';'
PDelClass(toks, i) ==
    IF TokAt(toks, i).kind = "Delete" /\ IsIdentTok(toks, i + 1) /\ IsCtrlTok(toks, i + 2, CH_SEMI)
    THEN [end |-> i + 3, out |-> DeleteEntry(TokAt(toks, i + 1).text)]
    ELSE PFail

\* entry = prop.or(prop_arr).or(extern_class).or(del_class) (parser.rs 229-233)
PEntry(toks, i) ==
    Or(PProp(toks, i), Or(PPropArr(toks, i), Or(PExternClass(toks, i), PDelClass(toks, i))))

RECURSIVE PClass(_, _)
RECURSIVE PEntries(_, _, _)

\* class.or(entry).repeated(): [end, out]; never fails
PEntries(toks, i, acc) ==
    LET Item(e) == IF e.end = 0 THEN [end |-> i, out |-> acc]
                   ELSE PEntries(toks, e.end, Append(acc, e.out))
    IN  Item(Or(PClass(toks, i), PEntry(toks, i)))

\* class (parser.rs 235-258):
\* 'class' identifier (':' identifier)? '{' (class | entry)* '}' ';'
PClass(toks, i) ==
    LET Body(parent, body) ==
            IF IsCtrlTok(toks, body.end, CH_RBRACE) /\ IsCtrlTok(toks, body.end + 1, CH_SEMI)
            THEN [end |-> body.end + 2,
                  out |-> ClassEntry(TokAt(toks, i + 1).text, parent, body.out)]
            ELSE PFail
        Open(parent, open) ==
            IF IsCtrlTok(toks, open, CH_LBRACE) THEN Body(parent, PEntries(toks, open + 1, <<>>))
            ELSE PFail
        Parent(hasParent) ==
            Open(IF hasParent THEN Some(TokAt(toks, i + 3).text) ELSE None,
                 IF hasParent THEN i + 4 ELSE i + 2)
    IN  IF TokAt(toks, i).kind = "Class" /\ IsIdentTok(toks, i + 1)
        THEN Parent(IsCtrlTok(toks, i + 2, CH_COLON) /\ IsIdentTok(toks, i + 3))
        ELSE PFail

\* A grammar diagnostic (Simple<Token>); only its origin is kept.
ParseDiag == [stage |-> "parser"]

\* entry_parser().parse_recovery(tokens) (parser.rs 261, 272-273):
\* class.or(entry).repeated().then_ignore(end()); [ast, parse_errs]
EntryParser(toks) ==
    LET Whole(r) == IF r.end = Len(toks) + 1 THEN [ast |-> Some(r.out), parse_errs |-> <<>>]
                    ELSE [ast |-> None, parse_errs |-> <<ParseDiag>>]
    IN  Whole(PEntries(toks, 1, <<>>))

(***************************************************************************)
(* parse (parser.rs 264-368) and Cfg::parse_config (config.rs 74-82).      *)
(* A result is [ok |-> TRUE, val |-> ...] or [ok |-> FALSE, err |-> ...].  *)
(***************************************************************************)
Ok(v) == [ok |-> TRUE, val |-> v]
Err(e) == [ok |-> FALSE, err |-> e]

\* RvffConfigErrorKind::RvffParseError(errs_str.join("\n")): the reports in
\* order, one per diagnostic
RvffParseError(reports) == [kind |-> "RvffParseError", errs_str |-> reports]

\* parser.rs 269-283: the grammar stage, run only when the lexer gave tokens
GrammarStage(tokens) ==
    IF tokens # None THEN EntryParser(tokens[1])
    ELSE [ast |-> None, parse_errs |-> <<>>]

\* A faulty outcome, for comparison: the lexer's diagnostics are ignored when
\* the grammar parser produced an AST.
ParseOutcomeGrammarOnly(errs, ast, parse_errs) ==
    IF ast # None /\ parse_errs = <<>> THEN Ok(ast[1])
    ELSE Err(RvffParseError(errs \o parse_errs))

\* parser.rs 276-277 and 285-367: what parse returns from the two stages' outputs
ParseOutcome(errs, ast, parse_errs) ==
    IF ast # None /\ Len(errs) + Len(parse_errs) = 0
    THEN Ok(ast[1])
    ELSE Err(RvffParseError(errs \o parse_errs))

\* parse(src)
Parse(s) ==
    LET Outcome(lx, gs) == ParseOutcome(lx.errs, gs.ast, gs.parse_errs)
        Stages(lx) == Outcome(lx, GrammarStage(lx.tokens))
    IN  Stages(Lexer(s))

\* A u32 as its two 16-bit halves.
Word(n) == [hi |-> n \div 65536, lo |-> n % 65536]

\* The Cfg struct (config.rs 11-16)
Cfg(enum_offset, inherited_classname, entries) ==
    [enum_offset |-> enum_offset, inherited_classname |-> inherited_classname,
     entries |-> entries]

\* Cfg::parse_config (config.rs 74-82)
ParseConfig(cfg) ==
    LET Wrap(r) == IF r.ok THEN Ok(Cfg(Word(0), <<>>, r.val)) ELSE r
    IN  Wrap(Parse(cfg))


(***************************************************************************)
(* The byte source: an in-memory cursor over data, as Cfg::read_data       *)
(* builds (config.rs 53-56).  pos is the 0-based offset of the next byte.  *)
(* A 32-bit word is kept as its two 16-bit halves [hi, lo].  The readers   *)
(* of ReadExtTrait (core/read.rs) are outside src/: a read that needs more *)
(* bytes than remain fails and leaves the cursor at the end.               *)
(***************************************************************************)
RAP_MAGIC == 1348563456

\* read_u8: [ok, pos, val]
ReadU8(data, pos) ==
    IF pos + 1 <= Len(data) THEN [ok |-> TRUE, pos |-> pos + 1, val |-> data[pos + 1]]
    ELSE [ok |-> FALSE, pos |-> Len(data), val |-> 0]

\* read_u32, little-endian: [ok, pos, val]
ReadU32(data, pos) ==
    IF pos + 4 <= Len(data)
    THEN [ok |-> TRUE, pos |-> pos + 4,
          val |-> [hi |-> data[pos + 4] * 256 + data[pos + 3],
                   lo |-> data[pos + 2] * 256 + data[pos + 1]]]
    ELSE [ok |-> FALSE, pos |-> Len(data), val |-> Word(0)]

RECURSIVE ZtEnd(_, _)
\* the offset of the first 0 byte at or after pos, -1 if there is none
ZtEnd(data, pos) ==
    IF pos + 1 > Len(data) THEN -1
    ELSE IF data[pos + 1] = 0 THEN pos
    ELSE ZtEnd(data, pos + 1)

\* read_string_zt: the bytes up to the terminating 0, which is consumed
ReadStringZt(data, pos) ==
    LET Upto(z) == IF z < 0 THEN [ok |-> FALSE, pos |-> Len(data), val |-> <<>>]
                   ELSE [ok |-> TRUE, pos |-> z + 1, val |-> SubSeq(data, pos + 1, z)]
    IN  Upto(ZtEnd(data, pos))

\* read_compressed_int: one byte, extended by a second one when bit 7 is set
ReadCompressedInt(data, pos) ==
    LET Second(a, b) ==
            IF ~b.ok THEN b
            ELSE [ok |-> TRUE, pos |-> b.pos,
                  val |-> IF b.val = 0 THEN a.val - 128 ELSE a.val + (b.val - 1) * 128]
        First(a) == IF ~a.ok \/ a.val < 128 THEN a ELSE Second(a, ReadU8(data, a.pos))
    IN  First(ReadU8(data, pos))

\* The i32 a word denotes.
I32OfWord(w) ==
    IF w.hi >= 32768 THEN (w.hi - 65536) * 65536 + w.lo ELSE w.hi * 65536 + w.lo

\* A float read from the binary form is kept as its bits.
FloatBits(w) == [type |-> "Float", bits |-> w]

BFail(pos) == [ok |-> FALSE, pos |-> pos, val |-> <<>>]

RECURSIVE ReadArray(_, _)
RECURSIVE ReadArrayItems(_, _, _, _)

\* One typed value: 0 string, 1 float, 2 integer, 3 nested array.
ReadTyped(data, pos, ty) ==
    LET String(str) == IF str.ok THEN [ok |-> TRUE, pos |-> str.pos, val |-> StringValue(str.val)]
                       ELSE BFail(str.pos)
        Float(w) == IF w.ok THEN [ok |-> TRUE, pos |-> w.pos, val |-> FloatBits(w.val)]
                    ELSE BFail(w.pos)
        Long(w) == IF w.ok THEN [ok |-> TRUE, pos |-> w.pos, val |-> LongValue(I32OfWord(w.val))]
                   ELSE BFail(w.pos)
    IN  IF ty = 0 THEN String(ReadStringZt(data, pos))
        ELSE IF ty = 1 THEN Float(ReadU32(data, pos))
        ELSE IF ty = 2 THEN Long(ReadU32(data, pos))
        ELSE IF ty = 3 THEN ReadArray(data, pos)
        ELSE BFail(pos)

ReadArrayItems(data, pos, n, acc) ==
    LET Value(v) == IF ~v.ok THEN BFail(v.pos)
                    ELSE ReadArrayItems(data, v.pos, n - 1, Append(acc, v.val))
        Type(ty) == IF ~ty.ok THEN BFail(ty.pos) ELSE Value(ReadTyped(data, ty.pos, ty.val))
    IN  IF n = 0 THEN [ok |-> TRUE, pos |-> pos, val |-> ArrayValue(acc)]
        ELSE Type(ReadU8(data, pos))

\* An array: its element count, then that many typed elements.
ReadArray(data, pos) ==
    LET Count(n) == IF ~n.ok THEN BFail(n.pos) ELSE ReadArrayItems(data, n.pos, n.val, <<>>)
    IN  Count(ReadCompressedInt(data, pos))

RECURSIVE ParseEntry(_, _)
RECURSIVE ParseEntries(_, _, _, _)

\* CfgEntry::parse_entry (rap/entry.rs, outside src/): the entry type byte,
\* then 0 class (name, parent name, entry count, entries), 1 property (value
\* type, name, value), 2 array property (name, array), 3 extern (name),
\* 4 delete (name).  A short read or an unknown type fails.
ParseEntry(data, pos) ==
    LET ClassBody(name, parent, body) ==
            IF ~body.ok THEN BFail(body.pos)
            ELSE [ok |-> TRUE, pos |-> body.pos,
                  val |-> ClassEntry(name.val,
                                     IF parent.val = <<>> THEN None ELSE Some(parent.val),
                                     body.val)]
        ClassCount(name, parent, count) ==
            IF ~count.ok THEN BFail(count.pos)
            ELSE ClassBody(name, parent, ParseEntries(data, count.pos, count.val, <<>>))
        ClassParent(name, parent) ==
            IF ~parent.ok THEN BFail(parent.pos)
            ELSE ClassCount(name, parent, ReadCompressedInt(data, parent.pos))
        Class(name) ==
            IF ~name.ok THEN BFail(name.pos) ELSE ClassParent(name, ReadStringZt(data, name.pos))
        PropValue(pname, pval) ==
            IF ~pval.ok THEN BFail(pval.pos)
            ELSE [ok |-> TRUE, pos |-> pval.pos, val |-> PropertyEntry(pname.val, pval.val)]
        PropName(sub, pname) ==
            IF ~pname.ok THEN BFail(pname.pos)
            ELSE PropValue(pname, ReadTyped(data, pname.pos, sub.val))
        Prop(sub) ==
            IF ~sub.ok \/ sub.val > 2 THEN BFail(sub.pos)
            ELSE PropName(sub, ReadStringZt(data, sub.pos))
        ArrayBody(name, arr) ==
            IF ~arr.ok THEN BFail(arr.pos)
            ELSE [ok |-> TRUE, pos |-> arr.pos, val |-> PropertyEntry(name.val, arr.val)]
        Array(name) ==
            IF ~name.ok THEN BFail(name.pos) ELSE ArrayBody(name, ReadArray(data, name.pos))
        Named(ty, name) ==
            IF ~name.ok THEN BFail(name.pos)
            ELSE [ok |-> TRUE, pos |-> name.pos,
                  val |-> IF ty.val = 3 THEN ExternEntry(name.val) ELSE DeleteEntry(name.val)]
        Type(ty) ==
            IF ~ty.ok THEN BFail(ty.pos)
            ELSE IF ty.val = 0 THEN Class(ReadStringZt(data, ty.pos))
            ELSE IF ty.val = 1 THEN Prop(ReadU8(data, ty.pos))
            ELSE IF ty.val = 2 THEN Array(ReadStringZt(data, ty.pos))
            ELSE IF ty.val \in {3, 4} THEN Named(ty, ReadStringZt(data, ty.pos))
            ELSE BFail(ty.pos)
    IN  Type(ReadU8(data, pos))

\* n entries in a row (a class body)
ParseEntries(data, pos, n, acc) ==
    LET Entry(e) == IF ~e.ok THEN BFail(e.pos)
                    ELSE ParseEntries(data, e.pos, n - 1, Append(acc, e.val))
    IN  IF n = 0 THEN [ok |-> TRUE, pos |-> pos, val |-> acc]
        ELSE Entry(ParseEntry(data, pos))

(***************************************************************************)
(* Cfg::is_valid_rap_bin and Cfg::read_config (config.rs 18-51).  ops is   *)
(* the list of reads made on the source, in order.                         *)
(***************************************************************************)
\* A faulty validation, for comparison: only the magic word is compared.
IsValidRapBinMagicOnly(data, pos) ==
    [valid |-> ReadU32(data, pos).ok /\ ReadU32(data, pos).val = Word(RAP_MAGIC)
               /\ pos + 12 <= Len(data),
     pos |-> IF pos + 12 <= Len(data) THEN pos + 12 ELSE Len(data),
     ops |-> <<"read_u32", "read_u32", "read_u32">>]

\* config.rs 18-25: the && chain stops reading at the first word that is
\* missing or wrong
IsValidRapBin(data, pos) ==
    LET Third(c) ==
            [valid |-> c.ok /\ c.val = Word(8), pos |-> c.pos,
             ops |-> <<"read_u32", "read_u32", "read_u32">>]
        Second(b) ==
            IF ~(b.ok /\ b.val = Word(0))
            THEN [valid |-> FALSE, pos |-> b.pos, ops |-> <<"read_u32", "read_u32">>]
            ELSE Third(ReadU32(data, b.pos))
        First(a) ==
            IF ~(a.ok /\ a.val = Word(RAP_MAGIC))
            THEN [valid |-> FALSE, pos |-> a.pos, ops |-> <<"read_u32">>]
            ELSE Second(ReadU32(data, a.pos))
    IN  First(ReadU32(data, pos))

InvalidFileError == [kind |-> "InvalidFileError"]
TruncatedOrCorrupt == [kind |-> "TruncatedOrCorrupt"]
IoError == [kind |-> "IoError"]

RECURSIVE ReadConfigEntries(_, _, _, _, _)
\* config.rs 40-44: for _ in 0..entry_count { entries.push(parse_entry(reader)?) }
\* [ok, pos, entries, ops]
ReadConfigEntries(data, pos, n, entries, ops) ==
    LET Entry(e) ==
            IF ~e.ok
            THEN [ok |-> FALSE, pos |-> e.pos, entries |-> entries,
                  ops |-> Append(ops, "parse_entry")]
            ELSE ReadConfigEntries(data, e.pos, n - 1, Append(entries, e.val),
                                   Append(ops, "parse_entry"))
    IN  IF n = 0 THEN [ok |-> TRUE, pos |-> pos, entries |-> entries, ops |-> ops]
        ELSE Entry(ParseEntry(data, pos))

\* A faulty outcome, for comparison: the entries read so far are returned when
\* an entry fails to decode.
ReadConfigBodyPartial(enum_offset, inherited_classname, loop) ==
    Ok(Cfg(enum_offset, inherited_classname, loop.entries))

\* config.rs 40-50: the loop's outcome as read_config's result
ReadConfigBody(enum_offset, inherited_classname, loop) ==
    IF loop.ok THEN Ok(Cfg(enum_offset, inherited_classname, loop.entries))
    ELSE Err(TruncatedOrCorrupt)

\* Cfg::read_config (config.rs 27-51): [res, pos, ops]
ReadConfig(data, pos) ==
    LET Entries(o, eo, name, loop) ==
            [res |-> ReadConfigBody(eo.val, name.val, loop), pos |-> loop.pos,
             ops |-> o \o loop.ops]
        Count(o, eo, name, cnt) ==
            IF ~cnt.ok THEN [res |-> Err(TruncatedOrCorrupt), pos |-> cnt.pos, ops |-> o]
            ELSE Entries(o, eo, name, ReadConfigEntries(data, cnt.pos, cnt.val, <<>>, <<>>))
        Name(o, eo, name) ==
            IF ~name.ok THEN [res |-> Err(TruncatedOrCorrupt), pos |-> name.pos, ops |-> o]
            ELSE Count(Append(o, "read_compressed_int"), eo, name,
                       ReadCompressedInt(data, name.pos))
        EnumOffset(o, eo) ==
            IF ~eo.ok THEN [res |-> Err(TruncatedOrCorrupt), pos |-> eo.pos, ops |-> o]
            ELSE Name(Append(o, "read_string_zt"), eo, ReadStringZt(data, eo.pos))
        Header(h) ==
            IF ~h.valid THEN [res |-> Err(InvalidFileError), pos |-> h.pos, ops |-> h.ops]
            ELSE EnumOffset(Append(h.ops, "read_u32"), ReadU32(data, h.pos))
    IN  Header(IsValidRapBin(data, pos))


(***************************************************************************)
(* Cfg::read (config.rs 58-72), in its steps.                              *)
(***************************************************************************)
IsCont(b) == b >= 128 /\ b <= 191

RECURSIVE DecodeUtf8(_, _, _)
\* String::from_utf8 as read_to_string applies it: [ok, text]
DecodeUtf8(bytes, i, acc) ==
    LET b0 == At(bytes, i)
        b1 == At(bytes, i + 1)
        b2 == At(bytes, i + 2)
        b3 == At(bytes, i + 3)
        bad == [ok |-> FALSE, text |-> <<>>]
    IN  IF b0 = EOF THEN [ok |-> TRUE, text |-> acc]
        ELSE IF b0 < 128 THEN DecodeUtf8(bytes, i + 1, Append(acc, b0))
        ELSE IF b0 >= 194 /\ b0 <= 223
        THEN (IF IsCont(b1)
              THEN DecodeUtf8(bytes, i + 2, Append(acc, (b0 - 192) * 64 + (b1 - 128)))
              ELSE bad)
        ELSE IF b0 >= 224 /\ b0 <= 239
        THEN (IF /\ IsCont(b1) /\ IsCont(b2)
                 /\ (b0 = 224 => b1 >= 160)
                 /\ (b0 = 237 => b1 <= 159)
              THEN DecodeUtf8(bytes, i + 3,
                              Append(acc, (b0 - 224) * 4096 + (b1 - 128) * 64 + (b2 - 128)))
              ELSE bad)
        ELSE IF b0 >= 240 /\ b0 <= 244
        THEN (IF /\ IsCont(b1) /\ IsCont(b2) /\ IsCont(b3)
                 /\ (b0 = 240 => b1 >= 144)
                 /\ (b0 = 244 => b1 <= 143)
              THEN DecodeUtf8(bytes, i + 4,
                              Append(acc, (b0 - 240) * 262144 + (b1 - 128) * 4096
                                          + (b2 - 128) * 64 + (b3 - 128)))
              ELSE bad)
        ELSE bad

\* A faulty rewind, for comparison: the cursor stays where the probe left it.
RewindNot(pos) == pos

\* config.rs 63: reader.rewind()
Rewind(pos) == 0

\* config.rs 68-71: read the rest of the source as text and parse it
ReadAsText(data, pos) ==
    LET Text(t) == IF t.ok THEN ParseConfig(t.text) ELSE Err(IoError)
    IN  Text(DecodeUtf8(SubSeq(data, pos + 1, Len(data)), 1, <<>>))

(***************************************************************************)
(* Path lookup.  CfgEntry::get_entry is in rap/entry.rs, outside src/: a   *)
(* class whose name is the first segment answers itself when the path ends *)
(* there and otherwise scans its body for the rest of the path, where the  *)
(* first entry whose name matches decides; a property whose name is the    *)
(* last segment answers its value.                                         *)
(***************************************************************************)
EntryReturnEntry(e) == [kind |-> "Entry", entry |-> e]
EntryReturnValue(v) == [kind |-> "Value", value |-> v]

NameMatches(e, path) ==
    path # <<>> /\ e.type \in {"Class", "Property"} /\ e.name = path[1]

RECURSIVE EntryGetEntry(_, _)
RECURSIVE ScanBody(_, _, _)

\* the scan of a class body: the first entry whose name matches decides
ScanBody(entries, i, path) ==
    IF i > Len(entries) THEN None
    ELSE IF NameMatches(entries[i], path) THEN EntryGetEntry(entries[i], path)
    ELSE ScanBody(entries, i + 1, path)

\* CfgEntry::get_entry
EntryGetEntry(e, path) ==
    IF ~NameMatches(e, path) THEN None
    ELSE IF e.type = "Class"
    THEN (IF Len(path) = 1 THEN Some(EntryReturnEntry(e)) ELSE ScanBody(e.entries, 1, Tail(path)))
    ELSE IF Len(path) = 1 THEN Some(EntryReturnValue(e.value)) ELSE None

RECURSIVE CfgScan(_, _, _)
\* config.rs 85-90: the first entry whose get_entry is Some
CfgScan(entries, i, path) ==
    IF i > Len(entries) THEN None
    ELSE LET Found(r) == IF r # None THEN r ELSE CfgScan(entries, i + 1, path)
         IN  Found(EntryGetEntry(entries[i], path))

\* Cfg::get_entry (config.rs 84-91)
CfgGetEntry(entries, path) == CfgScan(entries, 1, path)


(***************************************************************************)
(* Inputs.                                                                 *)
(***************************************************************************)
MaxStmts == 2
MaxChars == 3
MaxComments == 2
MaxBinEntries == 2
MaxTop == 2

\* Code points of the characters the inputs are written with.
CodeOf(c) ==
    CASE c = " " -> 32   [] c = "\"" -> 34 [] c = "*" -> 42  [] c = "," -> 44
      [] c = "-" -> 45   [] c = "." -> 46  [] c = "/" -> 47  [] c = "0" -> 48
      [] c = "1" -> 49   [] c = "2" -> 50  [] c = "3" -> 51  [] c = "5" -> 53
      [] c = ";" -> 59   [] c = "=" -> 61  [] c = "@" -> 64  [] c = "A" -> 65
      [] c = "B" -> 66   [] c = "Z" -> 90  [] c = "[" -> 91  [] c = "\\" -> 92
      [] c = "]" -> 93   [] c = "a" -> 97  [] c = "b" -> 98  [] c = "c" -> 99
      [] c = "d" -> 100  [] c = "e" -> 101 [] c = "l" -> 108 [] c = "n" -> 110
      [] c = "s" -> 115  [] c = "t" -> 116 [] c = "x" -> 120 [] c = "y" -> 121
      [] c = "{" -> 123  [] c = "}" -> 125 [] c = ":" -> 58  [] c = "NL" -> 10

Txt(q) == [i \in DOMAIN q |-> CodeOf(q[i])]

SRC_INT == Txt(<<"x", "=", "1", ";">>)
SRC_POINT == Txt(<<"x", "=", "1", ".", "0", ";">>)
SRC_EXP == Txt(<<"x", "=", "1", "e", "2", ";">>)
SRC_LEADING_ZEROS == Txt(<<"x", "=", "0", "0", "0", "3", ";">>)
SRC_FRACTION == Txt(<<"x", "=", "1", ".", "5", ";">>)
SRC_NO_SEMI == Txt(<<"y", "=", "2">>)
SRC_NO_VALUE == Txt(<<"y", "=", ";">>)
SRC_GARBAGE == Txt(<<"@", "@">>)
SRC_ARRAY ==
    Txt(<<"a", "[", "]", "=", "{", "1", ",", "2", ".", "5", ",", "{", "3", "}", ",", "}", ";">>)
SRC_CLASS == Txt(<<"c", "l", "a", "s", "s", " ", "A", ":", "B", "{", "x", "=", "1", ";", "}", ";">>)
SRC_EXTERN == Txt(<<"c", "l", "a", "s", "s", " ", "B", ";">>)
SRC_DELETE == Txt(<<"d", "e", "l", "e", "t", "e", " ", "B", ";">>)
SRC_CONCAT ==
    Txt(<<"s", "=", "\"", "a", "\"", " ", "\\", "n", " ", "\"", "b", "\"", ";">>)

StmtMenu ==
    {SRC_INT, SRC_POINT, SRC_EXP, SRC_LEADING_ZEROS, SRC_FRACTION, SRC_NO_SEMI, SRC_NO_VALUE,
     SRC_GARBAGE, SRC_ARRAY, SRC_CLASS, SRC_EXTERN, SRC_DELETE, SRC_CONCAT}

\* b after a, with a space between
Joined(a, b) == IF a = <<>> THEN b ELSE a \o <<32>> \o b

RECURSIVE StmtTexts(_)
\* the texts of at most n statements
StmtTexts(n) ==
    IF n = 0 THEN {<<>>}
    ELSE StmtTexts(n - 1) \cup {Joined(a, b) : a \in StmtTexts(n - 1), b \in StmtMenu}

CharAlphabet == {CodeOf(c) : c \in {"x", "=", "1", "0", ";", ".", "e", "@"}}
CharTexts == UNION {[1..n -> CharAlphabet] : n \in 0..MaxChars}

TextInputs == StmtTexts(MaxStmts) \cup CharTexts

\* comments and whitespace that may be put between tokens
CommentMenu ==
    {Txt(<<"/", "/", "c", "NL">>), Txt(<<"/", "*", "c", "*", "/">>), Txt(<<" ">>)}
CommentBases == {SRC_INT, SRC_FRACTION, SRC_EXTERN, SRC_CONCAT}

\* the binary form
GOOD_HEADER == <<0, 114, 97, 80, 0, 0, 0, 0, 8, 0, 0, 0>>
BadHeaders ==
    {<<1, 114, 97, 80, 0, 0, 0, 0, 8, 0, 0, 0>>,
     <<0, 114, 97, 80, 1, 0, 0, 0, 8, 0, 0, 0>>,
     <<0, 114, 97, 80, 0, 0, 0, 0, 9, 0, 0, 0>>,
     <<0, 114, 97, 80, 0, 0, 0, 0, 8, 0, 0, 1>>}
BinEntryMenu ==
    {<<3, 66, 0>>,                                   \* class B;
     <<4, 66, 0>>,                                   \* delete B;
     <<1, 2, 120, 0, 5, 0, 0, 0>>,                   \* x = 5;
     <<1, 1, 102, 0, 0, 0, 192, 63>>,                \* f = 1.5;
     <<1, 0, 115, 0, 97, 0>>,                        \* s = "a";
     <<2, 97, 0, 1, 2, 1, 0, 0, 0>>,                 \* a[] = {1};
     <<0, 65, 0, 0, 1, 1, 2, 120, 0, 5, 0, 0, 0>>,   \* class A { x = 5; };
     <<9>>}                                          \* no such entry type
BinCounts == {<<0>>, <<2>>, <<3>>, <<129, 1>>}
BinNames == {<<65, 0>>}

RECURSIVE BinBodies(_)
BinBodies(n) ==
    IF n = 0 THEN {<<>>}
    ELSE BinBodies(n - 1) \cup {a \o b : a \in BinBodies(n - 1), b \in BinEntryMenu}

BinStreams ==
    {GOOD_HEADER \o <<16, 0, 0, 0>> \o nm \o ct \o body :
        nm \in BinNames, ct \in BinCounts, body \in BinBodies(MaxBinEntries)}
    \cup {h \o <<16, 0, 0, 0, 0, 1>> \o e : h \in BadHeaders, e \in BinEntryMenu}

Prefixes(S) == {SubSeq(s, 1, k) : s \in S, k \in 0..12} \cup
               UNION {{SubSeq(s, 1, k) : k \in 0..Len(s)} : s \in S}

ByteInputs ==
    Prefixes(BinStreams)
    \cup StmtTexts(1)
    \cup {t \o <<255>> : t \in StmtTexts(1)}
    \cup {t \o <<195, 169>> : t \in StmtTexts(1)}

\* the documents and paths of the lookup
NAME_A == Txt(<<"A">>)
NAME_B == Txt(<<"B">>)
NAME_X == Txt(<<"x">>)
NAME_Z == Txt(<<"Z">>)
PROP_X5 == PropertyEntry(NAME_X, LongValue(5))
LookupEntryMenu ==
    {ClassEntry(NAME_A, None, <<>>),
     ClassEntry(NAME_A, None, <<PROP_X5>>),
     ClassEntry(NAME_A, None, <<ClassEntry(NAME_B, None, <<PROP_X5>>)>>),
     ClassEntry(NAME_A, None, <<ClassEntry(NAME_B, None, <<>>), ClassEntry(NAME_B, None, <<PROP_X5>>)>>),
     ClassEntry(NAME_B, Some(NAME_A), <<PROP_X5>>),
     PropertyEntry(NAME_A, LongValue(7)),
     PROP_X5,
     ExternEntry(NAME_A),
     DeleteEntry(NAME_A)}
LookupDocs == UNION {[1..n -> LookupEntryMenu] : n \in 0..MaxTop}
LookupPaths ==
    {<<>>, <<NAME_A>>, <<NAME_X>>, <<NAME_A, NAME_X>>, <<NAME_A, NAME_B>>,
     <<NAME_A, NAME_B, NAME_X>>, <<NAME_A, NAME_Z>>, <<NAME_B, NAME_X>>}

(***************************************************************************)
(* State.                                                                  *)
(***************************************************************************)
VARIABLES
    pc,            \* where the call is
    src,           \* parse: the text
    base,          \* the text before any comment was put in
    inserted,      \* the comments put in: [at, text], at an offset of base
    tokens,        \* parse: Option of the lexer's tokens
    errs,          \* parse: the lexer's diagnostics
    ast,           \* parse: Option of the grammar parser's entries
    parse_errs,    \* parse: the grammar parser's diagnostics
    data,          \* read, read_config: the bytes of the source
    call,          \* which entry point was called
    pos,           \* the source's cursor
    is_valid_bin,  \* read: what is_valid_rap_bin answered
    ops,           \* the reads read_config made
    doc,           \* get_entry: the Cfg's entries
    path,          \* get_entry: the path
    result         \* what the call returned

vars == <<pc, src, base, inserted, tokens, errs, ast, parse_errs, data, call, pos,
          is_valid_bin, ops, doc, path, result>>

textVars == <<src, base, inserted, tokens, errs, ast, parse_errs>>
binVars == <<data, call, pos, is_valid_bin, ops>>
lookupVars == <<doc, path>>

NoResult == [ok |-> FALSE, err |-> [kind |-> "none"]]

TextIdle ==
    /\ src = <<>> /\ base = <<>> /\ inserted = <<>>
    /\ tokens = None /\ errs = <<>> /\ ast = None /\ parse_errs = <<>>
BinIdle == data = <<>> /\ call = "none" /\ pos = 0 /\ is_valid_bin = FALSE /\ ops = <<>>
LookupIdle == doc = <<>> /\ path = <<>>

(***************************************************************************)
(* parse and Cfg::parse_config, step by step.                              *)
(***************************************************************************)
Init ==
    /\ src \in TextInputs /\ base = src /\ inserted = <<>>
    /\ tokens = None /\ errs = <<>> /\ ast = None /\ parse_errs = <<>>
    /\ pc = "lex" /\ result = NoResult
    /\ BinIdle /\ LookupIdle

\* parser.rs 265
Lex ==
    /\ pc = "lex"
    /\ \E lx \in {Lexer(src)} : tokens' = lx.tokens /\ errs' = lx.errs
    /\ pc' = "grammar"
    /\ UNCHANGED <<src, base, inserted, ast, parse_errs, result>>
    /\ UNCHANGED <<binVars, lookupVars>>

\* parser.rs 269-283
Grammar ==
    /\ pc = "grammar"
    /\ \E gs \in {GrammarStage(tokens)} : ast' = gs.ast /\ parse_errs' = gs.parse_errs
    /\ pc' = "return"
    /\ UNCHANGED <<src, base, inserted, tokens, errs, result>>
    /\ UNCHANGED <<binVars, lookupVars>>

\* parser.rs 276-277, 285-367
Return ==
    /\ pc = "return"
    /\ result' = ParseOutcome(errs, ast, parse_errs)
    /\ pc' = "parsed"
    /\ UNCHANGED <<textVars, binVars, lookupVars>>

\* config.rs 75-81
ParseConfigReturn ==
    /\ pc = "parsed"
    /\ result' = IF result.ok THEN Ok(Cfg(Word(0), <<>>, result.val)) ELSE result
    /\ pc' = "done"
    /\ UNCHANGED <<textVars, binVars, lookupVars>>

Next == Lex \/ Grammar \/ Return \/ ParseConfigReturn

Spec == Init /\ [][Next]_vars

(***************************************************************************)
(* The lexer on a text with comments put between its tokens.               *)
(***************************************************************************)
\* The offsets of s that lie between tokens: not inside the span of a token.
Boundaries(s) ==
    LET Between(toks) ==
            {k \in 0..Len(s) :
                \A t \in DOMAIN toks : k <= toks[t].span[1] \/ k >= toks[t].span[2]}
    IN  Between(Lexer(s).tokens[1])

RECURSIVE GapText(_, _, _)
\* what was put in at offset k, in the order it was put in
GapText(ins, i, k) ==
    IF i > Len(ins) THEN <<>>
    ELSE (IF ins[i].at = k THEN ins[i].text ELSE <<>>) \o GapText(ins, i + 1, k)

RECURSIVE Weave(_, _, _)
\* s from offset k on, with what was put in at each offset
Weave(s, ins, k) ==
    IF k = Len(s) THEN GapText(ins, 1, k)
    ELSE GapText(ins, 1, k) \o <<s[k + 1]>> \o Weave(s, ins, k + 1)

InitComments ==
    /\ src \in CommentBases /\ base = src /\ inserted = <<>>
    /\ tokens = None /\ errs = <<>> /\ ast = None /\ parse_errs = <<>>
    /\ pc = "lex" /\ result = NoResult
    /\ BinIdle /\ LookupIdle

\* Put one comment (or a blank) into the text at an offset that lies between
\* two tokens of base, before the first or after the last, after what was put
\* in there before.
InsertComment ==
    /\ pc = "lex"
    /\ Len(inserted) < MaxComments
    /\ \E k \in Boundaries(base), c \in CommentMenu :
          /\ inserted' = Append(inserted, [at |-> k, text |-> c])
          /\ src' = Weave(base, inserted', 0)
    /\ UNCHANGED <<pc, base, tokens, errs, ast, parse_errs, result>>
    /\ UNCHANGED <<binVars, lookupVars>>

NextComments == InsertComment \/ Lex

SpecComments == InitComments /\ [][NextComments]_vars

(***************************************************************************)
(* Cfg::read and Cfg::read_config on a byte source.                        *)
(***************************************************************************)
InitBin ==
    /\ data \in ByteInputs /\ call \in {"read", "read_config"}
    /\ pos = 0 /\ is_valid_bin = FALSE /\ ops = <<>>
    /\ pc = call /\ result = NoResult
    /\ TextIdle /\ LookupIdle

\* config.rs 62
ReadProbe ==
    /\ pc = "read"
    /\ \E h \in {IsValidRapBin(data, pos)} : is_valid_bin' = h.valid /\ pos' = h.pos
    /\ pc' = "rewind"
    /\ UNCHANGED <<data, call, ops, result>>
    /\ UNCHANGED <<textVars, lookupVars>>

\* config.rs 63
ReadRewind ==
    /\ pc = "rewind"
    /\ pos' = Rewind(pos)
    /\ pc' = "dispatch"
    /\ UNCHANGED <<data, call, is_valid_bin, ops, result>>
    /\ UNCHANGED <<textVars, lookupVars>>

\* config.rs 64-66
ReadBinary ==
    /\ pc = "dispatch" /\ is_valid_bin
    /\ \E r \in {ReadConfig(data, pos)} : result' = r.res /\ pos' = r.pos /\ ops' = r.ops
    /\ pc' = "done"
    /\ UNCHANGED <<data, call, is_valid_bin>>
    /\ UNCHANGED <<textVars, lookupVars>>

\* config.rs 68-71
ReadText ==
    /\ pc = "dispatch" /\ ~is_valid_bin
    /\ result' = ReadAsText(data, pos)
    /\ pos' = Len(data)
    /\ pc' = "done"
    /\ UNCHANGED <<data, call, is_valid_bin, ops>>
    /\ UNCHANGED <<textVars, lookupVars>>

\* config.rs 27-51, called directly
CallReadConfig ==
    /\ pc = "read_config"
    /\ \E r \in {ReadConfig(data, pos)} : result' = r.res /\ pos' = r.pos /\ ops' = r.ops
    /\ pc' = "done"
    /\ UNCHANGED <<data, call, is_valid_bin>>
    /\ UNCHANGED <<textVars, lookupVars>>

NextBin == ReadProbe \/ ReadRewind \/ ReadBinary \/ ReadText \/ CallReadConfig

SpecBin == InitBin /\ [][NextBin]_vars

(***************************************************************************)
(* Cfg::get_entry.                                                         *)
(***************************************************************************)
InitLookup ==
    /\ doc \in LookupDocs /\ path \in LookupPaths
    /\ pc = "get_entry" /\ result = NoResult
    /\ TextIdle /\ BinIdle

\* config.rs 84-91
GetEntry ==
    /\ pc = "get_entry"
    /\ result' = Ok(CfgGetEntry(doc, path))
    /\ pc' = "done"
    /\ UNCHANGED <<doc, path>>
    /\ UNCHANGED <<textVars, binVars>>

NextLookup == GetEntry

SpecLookup == InitLookup /\ [][NextLookup]_vars

(***************************************************************************)
(* Properties of the text path, under Spec.                                *)
(***************************************************************************)
\* what parse_config returns for a text with these entries
TextCfg(entries) == Ok(Cfg(Word(0), <<>>, entries))

\* a float Value written as digits times a power of ten
Float(digits, e10) == FloatValue(FALSE, FALSE, digits, e10)

RECURSIVE ConcatAll(_)
ConcatAll(seqs) == IF seqs = <<>> THEN <<>> ELSE Head(seqs) \o ConcatAll(Tail(seqs))

RECURSIVE ValueNumbers(_)
\* the numeric Values in a Value, in reading order
ValueNumbers(v) ==
    IF v.type = "Array" THEN ConcatAll([k \in DOMAIN v.items |-> ValueNumbers(v.items[k])])
    ELSE IF v.type = "String" THEN <<>>
    ELSE <<v>>

RECURSIVE EntryNumbers(_)
\* the numeric Values in an entry, in reading order
EntryNumbers(e) ==
    IF e.type = "Property" THEN ValueNumbers(e.value)
    ELSE IF e.type = "Class"
    THEN ConcatAll([k \in DOMAIN e.entries |-> EntryNumbers(e.entries[k])])
    ELSE <<>>

IsNumTok(t) == t.tok.kind = "Num"

\* C4: no partial success in the text path.  parse, and so parse_config,
\* returns entries exactly when the lexer produced tokens, the grammar parser
\* produced an AST and the two stages collected no diagnostic; then the entries
\* are the AST's.  In every other case the call fails with the one ParseError,
\* also when an AST is available.
C4_NoPartialSuccess ==
    /\ pc \in {"parsed", "done"} =>
          /\ result.ok <=> (tokens # None /\ ast # None /\ errs = <<>> /\ parse_errs = <<>>)
          /\ ~result.ok => result.err.kind = "RvffParseError"
    /\ pc = "parsed" /\ result.ok => result.val = ast[1]
    /\ pc = "done" /\ result.ok => result.val.entries = ast[1]

\* C4's case: the lexer recovered from an error, the grammar parser produced
\* an AST from the tokens, and parse_config failed.
C4_Witness == pc = "done" /\ errs # <<>> /\ ast # None /\ ~result.ok

\* C5: the ParseError carries one diagnostic for each independent syntax
\* error: a text of two entries that each lack their ';' (or their value)
\* fails with at least two diagnostics.
C5_AllDiagnostics ==
    pc \in {"parsed", "done"} =>
        \A a, b \in {SRC_NO_SEMI, SRC_NO_VALUE} :
            src = Joined(a, b) => ~result.ok /\ Len(result.err.errs_str) >= 2

\* C6: numeric dual typing.  Once the grammar parser has produced an AST, its
\* numeric Values are, in order, those of the numeric tokens: the integer
\* `num as i32` when the f32 parsed from the token's text has no fractional
\* part, the float otherwise.  The lexer's numeric tokens carry the raw text
\* of their span.
C6_DualTyping ==
    /\ pc \in {"return", "parsed", "done"} /\ ast # None =>
          /\ Len(ConcatAll([k \in DOMAIN ast[1] |-> EntryNumbers(ast[1][k])]))
                = Len(SelectSeq(tokens[1], IsNumTok))
          /\ \A k \in DOMAIN SelectSeq(tokens[1], IsNumTok) :
                ConcatAll([j \in DOMAIN ast[1] |-> EntryNumbers(ast[1][j])])[k]
                  = IF F32Class(SelectSeq(tokens[1], IsNumTok)[k].tok.text) \in {"zero", "int"}
                    THEN LongValue(F32AsI32(SelectSeq(tokens[1], IsNumTok)[k].tok.text))
                    ELSE F32Value(SelectSeq(tokens[1], IsNumTok)[k].tok.text)
    /\ pc # "lex" /\ errs = <<>> =>
          \A k \in DOMAIN tokens[1] :
              IsNumTok(tokens[1][k]) =>
                  tokens[1][k].tok.text
                    = SubSeq(src, tokens[1][k].span[1] + 1, tokens[1][k].span[2])

\* C6's case: a text was parsed in which one literal written with a point
\* became an integer and another one a float.
C6_Witness ==
    /\ pc = "done" /\ result.ok
    /\ src = Joined(SRC_POINT, SRC_FRACTION)
    /\ result.val.entries[1].value.type = "Long"
    /\ result.val.entries[2].value.type = "Float"

\* C7 as stated: `x=1;` yields the integer 1, `x=1.0;` the float 1.0 and
\* `x=1e2;` the float 100.0.
C7_ByLiteralForm ==
    pc = "done" =>
        /\ src = SRC_INT => result = TextCfg(<<PropertyEntry(NAME_X, LongValue(1))>>)
        /\ src = SRC_POINT => result = TextCfg(<<PropertyEntry(NAME_X, Float(<<1>>, 0))>>)
        /\ src = SRC_EXP => result = TextCfg(<<PropertyEntry(NAME_X, Float(<<1>>, 2))>>)

\* C7, amended: `x=1;` yields the integer 1, `x=1.0;` the integer 1 as well
\* and `x=1e2;` the integer 100, because the float parsed from each of the
\* three literals has no fractional part.
C7_ByFractionalPart ==
    pc = "done" =>
        /\ src = SRC_INT => result = TextCfg(<<PropertyEntry(NAME_X, LongValue(1))>>)
        /\ src = SRC_POINT => result = TextCfg(<<PropertyEntry(NAME_X, LongValue(1))>>)
        /\ src = SRC_EXP => result = TextCfg(<<PropertyEntry(NAME_X, LongValue(100))>>)

\* C7's case: parse_config has returned for `x=1.0;` or `x=1e2;`.
C7_Witness == pc = "done" /\ src \in {SRC_POINT, SRC_EXP} /\ result.ok

\* C10: parse_config on `x=0003;` yields a property x whose Value is the
\* number 3.
C10_LeadingZeros ==
    pc = "done" /\ src = SRC_LEADING_ZEROS =>
        /\ result.ok
        /\ result.val.entries \in {<<PropertyEntry(NAME_X, LongValue(3))>>,
                                   <<PropertyEntry(NAME_X, Float(<<3>>, 0))>>}

(***************************************************************************)
(* Comments, under SpecComments.                                           *)
(***************************************************************************)
\* the tokens without their spans
TokensOf(toks) == [k \in DOMAIN toks |-> toks[k].tok]

\* C8: comments are inter-token whitespace.  When the lexer accepts base
\* whole and without a diagnostic, then for src, which is base with line
\* comments, block comments and blanks put between its tokens, before the
\* first or after the last, in any order, the lexer produces the tokens of
\* base and no diagnostic.
C8_CommentsAreWhitespace ==
    pc = "grammar" /\ Lexer(base).errs = <<>> /\ Lexer(base).end = Len(base) + 1 =>
        /\ errs = <<>>
        /\ TokensOf(tokens[1]) = TokensOf(Lexer(base).tokens[1])

(***************************************************************************)
(* Properties of the binary path, under SpecBin.                           *)
(***************************************************************************)
\* The first three little-endian words are 1348563456, 0 and 8.
HeaderOk(d) == Len(d) >= 12 /\ SubSeq(d, 1, 12) = GOOD_HEADER

\* the whole content as text
Utf8(d) == DecodeUtf8(d, 1, <<>>)

\* what parse_config can return
IsParseConfigResult(r) == r.ok \/ r.err.kind = "RvffParseError"

\* C1 as stated: read rewinds the source; with the three header words right
\* its result is read_config's on the same bytes, and in every other case it
\* is what parse_config gives on the content read as text.
C1_ReadDispatchAlwaysParses ==
    /\ call = "read" /\ pc = "dispatch" => pos = 0
    /\ call = "read" /\ pc = "done" =>
          /\ HeaderOk(data) => result = ReadConfig(data, 0).res
          /\ ~HeaderOk(data) => IsParseConfigResult(result)
          /\ ~HeaderOk(data) /\ Utf8(data).ok => result = ParseConfig(Utf8(data).text)

\* C1, amended: read rewinds the source; with the three header words right
\* its result is read_config's on the same bytes; in every other case it is
\* what parse_config gives on the whole content when that is UTF-8 text, and
\* an IoError when it is not.  read never reports InvalidFileError.
C1_ReadDispatch ==
    /\ call = "read" /\ pc = "dispatch" => pos = 0
    /\ call = "read" /\ pc = "done" =>
          /\ HeaderOk(data) => result = ReadConfig(data, 0).res
          /\ ~HeaderOk(data) /\ Utf8(data).ok => result = ParseConfig(Utf8(data).text)
          /\ ~HeaderOk(data) /\ ~Utf8(data).ok => result = Err(IoError)
          /\ result # Err(InvalidFileError)

\* C1's case: read has returned for a source that has a wrong header and is
\* no UTF-8 text.
C1_Witness ==
    /\ call = "read" /\ pc = "done"
    /\ Len(data) >= 12 /\ ~HeaderOk(data) /\ ~Utf8(data).ok
    /\ result = Err(IoError)

\* C2: is_valid_rap_bin answers true exactly when the three words are the
\* magic, 0 and 8, and false (no error) on a mismatch or a short read;
\* read_config then fails with InvalidFileError, having read no more than the
\* three header words, and never parses the bytes as text.
C2_HeaderValidation ==
    /\ pc = "rewind" => is_valid_bin = HeaderOk(data)
    /\ call = "read_config" /\ pc = "done" =>
          /\ HeaderOk(data) <=> result # Err(InvalidFileError)
          /\ ~HeaderOk(data) =>
                /\ Len(ops) <= 3 /\ \A k \in DOMAIN ops : ops[k] = "read_u32"
                /\ pos <= 12

\* C2's case: read_config failed on a 12-byte header whose third word is wrong.
C2_Witness ==
    /\ call = "read_config" /\ pc = "done"
    /\ Len(data) >= 12 /\ SubSeq(data, 1, 8) = SubSeq(GOOD_HEADER, 1, 8) /\ ~HeaderOk(data)
    /\ result = Err(InvalidFileError)

\* The fields between the header and the entries: [ok, enum_offset, name,
\* count, at], at being the offset of the first entry.
BodyStart(d) ==
    LET Count(eo, name, cnt) ==
            [ok |-> cnt.ok, enum_offset |-> eo.val, name |-> name.val, count |-> cnt.val,
             at |-> cnt.pos]
        Name(eo, name) ==
            IF name.ok THEN Count(eo, name, ReadCompressedInt(d, name.pos)) ELSE [ok |-> FALSE]
        EnumOffset(eo) ==
            IF eo.ok THEN Name(eo, ReadStringZt(d, eo.pos)) ELSE [ok |-> FALSE]
    IN  EnumOffset(ReadU32(d, 12))

RECURSIVE Decodable(_, _, _)
\* the entries, at most n, that can be decoded one after the other from
\* offset at
Decodable(d, at, n) ==
    LET More(e) == IF e.ok THEN <<e.val>> \o Decodable(d, e.pos, n - 1) ELSE <<>>
    IN  IF n = 0 THEN <<>> ELSE More(ParseEntry(d, at))

\* C3, for a source whose header is right: when fewer entries can be decoded
\* than the entry count declares, read_config fails with TruncatedOrCorrupt
\* and returns no entries; when it returns a Cfg, its entries are the declared
\* number of entries in the order they were read, and its enum offset and
\* inherited classname are the fields that precede them.
C3_TruncatedBody ==
    pc = "done" /\ HeaderOk(data) =>
        LET Check(b, decoded) ==
                /\ ~b.ok => result = Err(TruncatedOrCorrupt)
                /\ b.ok /\ Len(decoded) < b.count => result = Err(TruncatedOrCorrupt)
                /\ b.ok /\ Len(decoded) = b.count =>
                      result = Ok(Cfg(b.enum_offset, b.name, decoded))
                /\ result.ok => b.ok /\ Len(result.val.entries) = b.count
            With(b) == Check(b, IF b.ok THEN Decodable(data, b.at, b.count) ELSE <<>>)
        IN  With(BodyStart(data))

\* C3's case: read_config failed on a body of which one entry or more, but
\* fewer than declared, could be decoded.
C3_Witness ==
    /\ call = "read_config" /\ pc = "done" /\ HeaderOk(data)
    /\ BodyStart(data).ok
    /\ Len(Decodable(data, BodyStart(data).at, BodyStart(data).count)) \in
          1..(BodyStart(data).count - 1)
    /\ result = Err(TruncatedOrCorrupt)

(***************************************************************************)
(* The lookup, under SpecLookup.                                           *)
(***************************************************************************)
\* C9: first structural match wins.  The answer of Cfg::get_entry is that of
\* the first top-level entry whose name matches the first path segment, absent
\* when that entry cannot resolve the rest of the path; a later entry of the
\* same name is not searched.
C9_FirstMatchWins ==
    pc = "done" =>
        \A i \in DOMAIN doc :
            NameMatches(doc[i], path) /\ (\A j \in 1..(i - 1) : ~NameMatches(doc[j], path))
                => result.val = EntryGetEntry(doc[i], path)

====
